---- MODULE Spec2Model ----
(***************************************************************************)
(* The SQLAlchemy storage backend of kinto.core: the record table of the   *)
(* storage's collection class, the "deleted" (tombstone) table, the        *)
(* "timestamps" ledger, the before_flush hook and the integrity-error      *)
(* classifier.  Every storage call runs in its own ambient transaction:    *)
(* an action is the call together with the flush and commit (or rollback)  *)
(* that ends it.  SpecRace has two such transactions side by side and      *)
(* splits a call into its reads and its commit; SpecSchema is the setup    *)
(* of the schema of a mapped class (schema_setup, MethodAppender).         *)
(***************************************************************************)
EXTENDS Integers, Sequences, FiniteSets, TLC

\* ------------------------------------------------------------------ bounds
MaxId == 2
MaxClock == 1
MaxRank == 2
MaxMessage == 5

\* ------------------------------------------------------------- the domains
Ids == 1..MaxId
Clock == 0..MaxClock
Parents == {"p1", "p2"}
\* classname(i) of the storage's collection class, the ledger key of the hook
ClassName == "dummy"
Collections == {ClassName}
\* NULL of a nullable String / Integer column
NullName == "NULL"
NullRank == 0
Names == {"a", ")("}
Ranks == 1..MaxRank
Engines == {"postgresql", "sqlite"}
PayloadKeys == {"id", "name", "rank", "deleted"}

\* A dict handed to create/update: `has` is its key set; a key that is absent
\* holds the fixed filler of its type, so that a dict has one representation.
Payloads ==
    { r \in [has : SUBSET PayloadKeys, id : Ids, name : Names,
              rank : Ranks, deleted : BOOLEAN] :
        /\ ("id" \notin r.has => r.id = 1)
        /\ ("name" \notin r.has => r.name = "a")
        /\ ("rank" \notin r.has => r.rank = 1)
        /\ ("deleted" \notin r.has => r.deleted = FALSE) }

NoPayload == [has |-> {}, id |-> 1, name |-> "a", rank |-> 1, deleted |-> FALSE]

VARIABLES
    table,       \* the collection's table: id -> row
    deleted,     \* the "deleted" table: a set of tombstone rows
    timestamps,  \* the "timestamps" table: <<parent_id, collection_id>> -> last_modified
    now,         \* the last reading of datetime.utcnow()
    engine,      \* Session.bind.engine.name
    last,        \* the last storage call: its arguments and what it returned or raised
    removed,     \* history: the ids that a delete call has deleted
    observed,    \* history: the last values collection_timestamp returned, by namespace
    pending,     \* the IntegrityError a flush has raised and the record it was for
    txn,         \* the calls in flight of the concurrent transactions
    schema       \* the mapped class and the preparers and validators of its __schema__

vars == <<table, deleted, timestamps, now, engine, last, removed, observed, pending,
          txn, schema>>

\* -------------------------------------------------------------- the clock
\* datetime.utcnow(): a reading is never earlier than the previous one; two
\* readings may be equal (the resolution of the clock).
Readings(t) == { u \in Clock : t <= u /\ u <= t + 1 }

\* ------------------------------------------------------- returned values
NoValue == [type |-> "none", id |-> 0, last_modified |-> 0, name |-> NullName,
            rank |-> NullRank, n |-> 0, rows |-> <<>>]

\* SQLABaseObject.deserialize: the external representation of a row.  The
\* schema excludes parent_id and deleted.
Deserialize(id, row) ==
    [type |-> "record", id |-> id, last_modified |-> row.last_modified,
     name |-> row.name, rank |-> row.rank, n |-> 0, rows |-> <<>>]

\* last_modified.replace(tzinfo=utc).timestamp(): the datetime as epoch time.
\* Clock values are already counted from the epoch, in clock resolution units.
EpochTimestamp(t) ==
    [type |-> "float", id |-> 0, last_modified |-> t, name |-> NullName,
     rank |-> NullRank, n |-> 0, rows |-> <<>>]

\* What Session.execute(tb.delete()...) returns: the ResultProxy of the
\* statement, whose rowcount is the number of rows removed.
ResultProxy(rowcount) ==
    [type |-> "ResultProxy", id |-> 0, last_modified |-> 0, name |-> NullName,
     rank |-> NullRank, n |-> rowcount, rows |-> <<>>]

\* What a call raised: the exception class, and for a UnicityError its field
\* and record.
NoError == [kind |-> "", field |-> "", record |-> NoPayload]
Raised(kind) == [kind |-> kind, field |-> "", record |-> NoPayload]
UnicityError(field, record) == [kind |-> "UnicityError", field |-> field, record |-> record]

Call(op, parent_id, collection_id, object_id, error, ret) ==
    [op |-> op, parent_id |-> parent_id, collection_id |-> collection_id,
     object_id |-> object_id, error |-> error, ret |-> ret]

\* --------------------------------------------- the integrity-error classifier
\* A text as the regular expression sees it: "(" and ")" are tokens of their
\* own, a run of other characters is one token.
Tokens(text) ==
    IF text = ")(" THEN <<")", "(">> ELSE <<text>>

RECURSIVE Join(_)
Join(tokens) ==
    IF tokens = <<>> THEN "" ELSE Head(tokens) \o Join(Tail(tokens))

\* error.orig of a unique violation on PostgreSQL: SQLSTATE 23505 and
\*   duplicate key value violates unique constraint "..."
\*   DETAIL:  Key (<field>)=(<value>) already exists.
PgUniqueViolation(field, value) ==
    [pgcode |-> "23505",
     pgerror |-> <<"duplicate key value violates unique constraint ", "Key ", "(">>
                 \o Tokens(field) \o <<")", "=", "(">> \o Tokens(value)
                 \o <<")", " already exists.">>]

\* The first ")" of msg at or after position i, 0 when there is none.
RECURSIVE Closing(_, _)
Closing(msg, i) ==
    IF i > Len(msg) THEN 0
    ELSE IF msg[i] = ")" THEN i
    ELSE Closing(msg, i + 1)

\* re.findall(r'\((.*?)\)', msg) from position i: the groups of the
\* non-overlapping, non-greedy matches, left to right.
RECURSIVE FindAll(_, _)
FindAll(msg, i) ==
    IF i > Len(msg) THEN <<>>
    ELSE IF msg[i] # "(" \/ Closing(msg, i + 1) = 0 THEN FindAll(msg, i + 1)
    ELSE <<SubSeq(msg, i + 1, Closing(msg, i + 1) - 1)>>
         \o FindAll(msg, Closing(msg, i + 1) + 1)

Subclasses(cls) ==
    CASE cls = "DBError" -> <<"postgresqlError">>
      [] cls = "postgresqlError" -> <<"postgresqlError23505">>
      [] OTHER -> <<>>

\* The searched name as it would be if postgresqlError kept the pattern of
\* DBError, '{engine}Error'.
SearchedNameOfEngine(cls, eng, error) ==
    IF eng = "unbound" THEN "AttributeError" ELSE eng \o "Error"

\* cls.format_parameters, then searched_subclass_pattern.format: the class
\* name searched for, or the exception the formatting raises.
SearchedName(cls, eng, error) ==
    IF eng = "unbound" THEN "AttributeError"
    ELSE IF cls = "DBError" THEN eng \o "Error"
    ELSE eng \o "Error" \o error.pgcode

\* process_error as it would be if postgresqlError23505 took the first group
\* of the message without unpacking the list into two.
ProcessErrorFirstGroup(cls, error, record) ==
    IF cls = "postgresqlError23505"
    THEN LET groups == FindAll(error.pgerror, 1)
         IN  IF Len(groups) >= 1
             THEN UnicityError(Join(groups[1]), record)
             ELSE Raised("IndexError")
    ELSE Raised("BackendError")

\* process_error of an instance of cls.
ProcessError(cls, error, record) ==
    IF cls = "postgresqlError23505"
    THEN LET groups == FindAll(error.pgerror, 1)
         IN  IF Len(groups) = 2
             THEN UnicityError(Join(groups[1]), record)
             ELSE Raised("ValueError")
    ELSE Raised("BackendError")

\* DBError.get_class: the loop over cls.__subclasses__() from the k-th on.  A
\* subclass whose name is the searched one classifies the error; a UnicityError
\* it raises is re-raised, any other exception is logged and the loop goes on;
\* after the loop the class itself processes the error.
RECURSIVE GetClassFrom(_, _, _, _, _)
GetClassFrom(cls, k, eng, error, record) ==
    IF k > Len(Subclasses(cls))
    THEN ProcessError(cls, error, record)
    ELSE IF SearchedName(cls, eng, error) # Subclasses(cls)[k]
    THEN GetClassFrom(cls, k + 1, eng, error, record)
    ELSE LET raised == GetClassFrom(Subclasses(cls)[k], 1, eng, error, record)
         IN  IF raised.kind = "UnicityError"
             THEN raised
             ELSE GetClassFrom(cls, k + 1, eng, error, record)

GetClass(cls, eng, error, record) == GetClassFrom(cls, 1, eng, error, record)

\* process_unicity_error(error, session, obj, record)
ProcessUnicityError(eng, error, record) == GetClass("DBError", eng, error, record)

\* No IntegrityError is being handled.
NoPending == [error |-> [pgcode |-> "", pgerror |-> <<>>], record |-> NoPayload]

\* ------------------------------------------------ concurrent transactions
\* Two sessions, each with its own ambient transaction.  A call in flight has
\* read the store (found: the row it looked for was there; t: its reading of
\* the clock; touched: the reading of the hook) and its writes are not
\* committed yet; a call that has ended leaves what it raised in `error`.
Txns == {"t1", "t2"}

InFlight(pc, op, parent_id, collection_id, object_id, found, t, touched, error) ==
    [pc |-> pc, op |-> op, parent_id |-> parent_id, collection_id |-> collection_id,
     object_id |-> object_id, found |-> found, t |-> t, touched |-> touched,
     error |-> error]

Idle == InFlight("idle", "", "p1", ClassName, 0, FALSE, 0, 0, "")

NoTxns == [x \in Txns |-> Idle]

\* ------------------------------------------------ the schema of a mapped class
\* A value of pointer.preparer or of an entry of a validator list: None, a
\* string naming a method, or a method of the class or of SQLABaseObject.
None == [kind |-> "none", owner |-> "", name |-> ""]
Str(name) == [kind |-> "str", owner |-> "", name |-> name]
Method(owner, name) == [kind |-> "method", owner |-> owner, name |-> name]

\* The schema node itself ('global') and its children, in the order of
\* append_methods.  The children are the columns of the class: name and price
\* for the Dummy of the tests.
Pointers == <<"global", "name", "price">>

\* A mapped class that has no __schema__ yet: the methods it defines and the
\* preparer and validator named in the info of its columns.
Unmapped(methods, info) ==
    [methods |-> methods, info |-> info, has |-> FALSE,
     preparer |-> <<>>, validator |-> <<>>, error |-> ""]

NoInfo == [p \in {"global", "name", "price"} |-> [preparer |-> None, validator |-> None]]

NoSchema == Unmapped({}, NoInfo)

Init ==
    /\ table = <<>>
    /\ deleted = {}
    /\ timestamps = <<>>
    /\ now = 0
    /\ engine \in Engines
    /\ last = Call("init", "p1", ClassName, 0, NoError, NoValue)
    /\ removed = {}
    /\ observed = <<>>
    /\ pending = NoPending
    /\ txn = NoTxns
    /\ schema = NoSchema

\* ------------------------------------------------ the before_flush hook
\* filter_instances(session.new): the ledger keys of the new instances that are
\* timestamp-trackable.  Only instances of the collection class are; Deleted
\* and Timestamps rows have no is_timestamp_trackeable.  An instance is
\* [class, parent_id].
FilterInstances(instances) ==
    { <<i.parent_id, ClassName>> : i \in { x \in instances : x.class = ClassName } }

\* The hook as it would be if it wrote the epoch, the default of an unset
\* datetime, instead of reading the clock.
PopulateTimestampsTableEpoch(ledger, new, t) ==
    [k \in DOMAIN ledger \cup FilterInstances(new) |->
        IF k \in FilterInstances(new) THEN 0 ELSE ledger[k]]

\* populate_timestamps_table: every key of the new trackable instances is set
\* to the reading t of the clock, in an existing ledger row or in a new one.
PopulateTimestampsTable(ledger, new, t) ==
    [k \in DOMAIN ledger \cup FilterInstances(new) |->
        IF k \in FilterInstances(new) THEN t ELSE ledger[k]]

NewRecord(parent_id) == [class |-> ClassName, parent_id |-> parent_id]
NewDeleted(parent_id) == [class |-> "Deleted", parent_id |-> parent_id]

\* --------------------------------------------------------- Storage.create
\* self.collection.serialize(record): the row of the record.  The schema has
\* the columns id, name and rank; deleted takes its column default.
Serialize(record, parent_id, t) ==
    [parent_id |-> parent_id, last_modified |-> t, deleted |-> FALSE,
     name |-> IF "name" \in record.has THEN record.name ELSE NullName,
     rank |-> IF "rank" \in record.has THEN record.rank ELSE NullRank]

\* The unique constraints (id, the primary key, and name) that inserting or
\* updating to (id, name) violates; `self` is the id of the row being updated,
\* 0 for an insert.
Violated(rows, self, id, name) ==
    (IF id # self /\ id \in DOMAIN rows THEN {"id"} ELSE {})
    \cup (IF name # NullName /\ \E o \in DOMAIN rows \ {self} : rows[o].name = name
          THEN {"name"} ELSE {})

ViolationValue(field, id, name) == IF field = "id" THEN ToString(id) ELSE name

\* The id the engine gives a row inserted without one: one more than the
\* largest id of the table (no row is ever removed from it).
RECURSIVE Largest(_)
Largest(ids) ==
    IF ids = {} THEN 0
    ELSE LET i == CHOOSE x \in ids : TRUE
             m == Largest(ids \ {i})
         IN  IF i > m THEN i ELSE m

Autoincrement(rows) == Largest(DOMAIN rows) + 1

\* The id under which create stores the record.
AssignedId(record, rows) ==
    IF "id" \in record.has THEN record.id ELSE Autoincrement(rows)

\* create, called as `op` (create itself, or update on an id that is absent):
\* t1 is the reading of line 126, t2 the reading of the hook during the flush.
DoCreate(op, parent_id, collection_id, object_id, record) ==
    \E t1 \in Readings(now) : \E t2 \in Readings(t1) :
      LET id == AssignedId(record, table)
          row == Serialize(record, parent_id, t1)
          bad == Violated(table, 0, id, row.name)
      IN  /\ id \in Ids
          /\ now' = t2
          /\ UNCHANGED <<deleted, engine>>
          /\ IF bad = {}
             THEN /\ table' = [k \in DOMAIN table \cup {id} |->
                                  IF k = id THEN row ELSE table[k]]
                  /\ timestamps' = PopulateTimestampsTable(timestamps,
                                                            {NewRecord(parent_id)}, t2)
                  /\ last' = Call(op, parent_id, collection_id, object_id,
                                  NoError, Deserialize(id, row))
             ELSE /\ UNCHANGED <<table, timestamps>>
                  /\ \E f \in bad :
                       last' = Call(op, parent_id, collection_id, object_id,
                                    ProcessUnicityError(engine,
                                        PgUniqueViolation(f, ViolationValue(f, id, row.name)),
                                        record),
                                    NoValue)

Create(parent_id, collection_id, record) ==
    DoCreate("create", parent_id, collection_id, 0, record)

\* ------------------------------------------------------------ Storage.get
\* get as it would be if reading a record counted as a touch of the ledger.
GetTouching(parent_id, collection_id, object_id) ==
    /\ last' = IF object_id \notin DOMAIN table \/ table[object_id].deleted
               THEN Call("get", parent_id, collection_id, object_id,
                         Raised("RecordNotFoundError"), NoValue)
               ELSE Call("get", parent_id, collection_id, object_id,
                         NoError, Deserialize(object_id, table[object_id]))
    /\ timestamps' = PopulateTimestampsTable(timestamps, {NewRecord(parent_id)}, now)
    /\ UNCHANGED <<table, deleted, now, engine>>

Get(parent_id, collection_id, object_id) ==
    /\ last' = IF object_id \notin DOMAIN table \/ table[object_id].deleted
               THEN Call("get", parent_id, collection_id, object_id,
                         Raised("RecordNotFoundError"), NoValue)
               ELSE Call("get", parent_id, collection_id, object_id,
                         NoError, Deserialize(object_id, table[object_id]))
    /\ UNCHANGED <<table, deleted, timestamps, now, engine>>

\* --------------------------------------------------------- Storage.update
\* update as it would be if it replaced the row by the payload: a column the
\* payload does not give falls back to NULL or to its default.
SetAttrsReplace(row, object) ==
    [row EXCEPT !.name = IF "name" \in object.has THEN object.name ELSE NullName,
                !.rank = IF "rank" \in object.has THEN object.rank ELSE NullRank,
                !.deleted = IF "deleted" \in object.has THEN object.deleted ELSE FALSE]

\* for k, v in object.items(): setattr(obj, k, v).  The id of the payload is the
\* id of the object.
SetAttrs(row, object) ==
    [row EXCEPT !.name = IF "name" \in object.has THEN object.name ELSE @,
                !.rank = IF "rank" \in object.has THEN object.rank ELSE @,
                !.deleted = IF "deleted" \in object.has THEN object.deleted ELSE @]

Update(parent_id, collection_id, object_id, object) ==
    IF object_id \notin DOMAIN table
    THEN DoCreate("update", parent_id, collection_id, object_id, object)
    ELSE LET row == SetAttrs(table[object_id], object)
         IN  /\ IF Violated(table, object_id, object_id, row.name) = {}
                THEN /\ table' = [table EXCEPT ![object_id] = row]
                     /\ last' = Call("update", parent_id, collection_id, object_id,
                                     NoError, Deserialize(object_id, row))
                ELSE /\ UNCHANGED table
                     /\ last' = Call("update", parent_id, collection_id, object_id,
                                     Raised("IntegrityError"), NoValue)
             /\ timestamps' = PopulateTimestampsTable(timestamps, {}, now)
             /\ UNCHANGED <<deleted, now, engine>>

\* --------------------------------------------------------- Storage.delete
Tombstone(id, parent_id, collection_id, t) ==
    [id |-> id, parent_id |-> parent_id, collection_id |-> collection_id,
     last_modified |-> t]

\* The primary key of the "deleted" table.
Key(tombstone) == <<tombstone.id, tombstone.parent_id, tombstone.collection_id>>

\* The tombstones that Session.add(Deleted(...)) of delete puts in the session.
DeleteTombstones(object_id, parent_id, collection_id, t, with_deleted) ==
    {Tombstone(object_id, parent_id, collection_id, t)}

\* INSERT of the rows `new` into the "deleted" table: it fails when a new row
\* has the primary key of a stored row.
InsertFails(stored, new) ==
    \E a \in stored, b \in new : Key(a) = Key(b)

Delete(parent_id, collection_id, object_id, with_deleted) ==
    IF object_id \notin DOMAIN table \/ table[object_id].deleted
    THEN /\ last' = Call("delete", parent_id, collection_id, object_id,
                         Raised("RecordNotFoundError"), NoValue)
         /\ UNCHANGED <<table, deleted, timestamps, now, engine>>
    ELSE \E t \in Readings(now) :
           LET row == [table[object_id] EXCEPT !.deleted = TRUE, !.last_modified = t]
               new == DeleteTombstones(object_id, parent_id, collection_id, t, with_deleted)
           IN  /\ now' = t
               /\ UNCHANGED engine
               /\ IF InsertFails(deleted, new)
                  THEN /\ UNCHANGED <<table, deleted, timestamps>>
                       /\ last' = Call("delete", parent_id, collection_id, object_id,
                                       Raised("IntegrityError"), NoValue)
                  ELSE /\ table' = [table EXCEPT ![object_id] = row]
                       /\ deleted' = deleted \cup new
                       /\ timestamps' = PopulateTimestampsTable(timestamps,
                                            { NewDeleted(x.parent_id) : x \in new }, t)
                       /\ last' = Call("delete", parent_id, collection_id, object_id,
                                       NoError, Deserialize(object_id, row))

\* ------------------------------------------------------- Storage.delete_all
\* A Filter is [field, operator, value]; the operators are named as in
\* COMPARISON.  The filters of a call are a list, or None (the default).
FilterValue(field, id, row) == IF field = "id" THEN id ELSE row.rank

\* The filter as it would be if IN and EXCLUDE went through attribute.op like
\* the scalar operators: a comparison of the column with the list, which no
\* value of the column equals.
SQLAFilterDirect(filter, id, row) ==
    LET v == FilterValue(filter.field, id, row)
    IN  /\ ~(filter.field = "rank" /\ v = NullRank)
        /\ CASE filter.operator = "EQ" -> v = filter.value
             [] filter.operator = "IN" -> FALSE
             [] filter.operator = "EXCLUDE" -> TRUE
             [] filter.operator = "NOT" -> v # filter.value
             [] filter.operator = "LT" -> v < filter.value
             [] filter.operator = "GT" -> v > filter.value
             [] filter.operator = "MIN" -> v >= filter.value
             [] filter.operator = "MAX" -> v <= filter.value

\* SQLAFilter(collection, criteria)(): the predicate of one filter on a row.
\* EQ is rendered "=", IN and EXCLUDE as in_ / notin_, any other operator as
\* its own value; a comparison with NULL is not true.
SQLAFilter(filter, id, row) ==
    LET v == FilterValue(filter.field, id, row)
    IN  /\ ~(filter.field = "rank" /\ v = NullRank)
        /\ CASE filter.operator = "EQ" -> v = filter.value
             [] filter.operator = "IN" -> v \in filter.values
             [] filter.operator = "EXCLUDE" -> v \notin filter.values
             [] filter.operator = "NOT" -> v # filter.value
             [] filter.operator = "LT" -> v < filter.value
             [] filter.operator = "GT" -> v > filter.value
             [] filter.operator = "MIN" -> v >= filter.value
             [] filter.operator = "MAX" -> v <= filter.value

NoFilters == [given |-> FALSE, list |-> <<>>]
Filters(list) == [given |-> TRUE, list |-> list]

\* The ids of the rows of the query of delete_all: the live rows of the parent
\* that every filter selects.
DeleteAllQuery(rows, parent_id, list) ==
    { i \in DOMAIN rows :
        /\ rows[i].parent_id = parent_id
        /\ rows[i].deleted = FALSE
        /\ \A k \in 1..Len(list) : SQLAFilter(list[k], i, rows[i]) }

\* The orders in which qry.all() may return the rows `ids`.
Orders(ids) ==
    { o \in [1..Cardinality(ids) -> ids] :
        \A a, b \in 1..Cardinality(ids) : a # b => o[a] # o[b] }

\* The readings of the clock of the list comprehension, one for each row.
Stamps(n, t) ==
    { ts \in [1..n -> Clock] :
        \A k \in 1..n : ts[k] \in Readings(IF k = 1 THEN t ELSE ts[k - 1]) }

\* What delete_all returns: the list of the rows, here by its length.
RowList(rows) ==
    [type |-> "rows", id |-> 0, last_modified |-> 0, name |-> NullName,
     rank |-> NullRank, n |-> Cardinality(rows), rows |-> <<>>]

\* delete_all as it would be if, like delete, it did not look at with_deleted.
DeleteAllTracked(parent_id, collection_id, filters, with_deleted) ==
    IF ~filters.given
    THEN /\ last' = Call("delete_all", parent_id, collection_id, 0,
                         Raised("TypeError"), NoValue)
         /\ UNCHANGED <<table, deleted, timestamps, now, engine>>
    ELSE LET ids == DeleteAllQuery(table, parent_id, filters.list)
             n == Cardinality(ids)
         IN  \E order \in Orders(ids), ts \in Stamps(n, now) :
               LET rows == { Tombstone(order[k], parent_id, collection_id, ts[k]) :
                               k \in 1..n }
               IN  /\ now' = IF n = 0 THEN now ELSE ts[n]
                   /\ UNCHANGED <<timestamps, engine>>
                   /\ IF InsertFails(deleted, rows)
                      THEN /\ UNCHANGED <<table, deleted>>
                           /\ last' = Call("delete_all", parent_id, collection_id, 0,
                                           Raised("IntegrityError"), NoValue)
                      ELSE /\ table' = [i \in DOMAIN table |->
                                          IF i \in ids
                                          THEN [table[i] EXCEPT
                                                  !.deleted = TRUE,
                                                  !.last_modified =
                                                     (CHOOSE x \in rows : x.id = i).last_modified]
                                          ELSE table[i]]
                           /\ deleted' = deleted \cup rows
                           /\ last' = Call("delete_all", parent_id, collection_id, 0,
                                           NoError, RowList(rows))

DeleteAll(parent_id, collection_id, filters, with_deleted) ==
    IF ~filters.given
    THEN /\ last' = Call("delete_all", parent_id, collection_id, 0,
                         Raised("TypeError"), NoValue)
         /\ UNCHANGED <<table, deleted, timestamps, now, engine>>
    ELSE LET ids == DeleteAllQuery(table, parent_id, filters.list)
             n == Cardinality(ids)
         IN  \E order \in Orders(ids), ts \in Stamps(n, now) :
               LET rows == { Tombstone(order[k], parent_id, collection_id, ts[k]) :
                               k \in 1..n }
               IN  /\ now' = IF n = 0 THEN now ELSE ts[n]
                   /\ UNCHANGED <<timestamps, engine>>
                   /\ IF with_deleted /\ InsertFails(deleted, rows)
                      THEN /\ UNCHANGED <<table, deleted>>
                           /\ last' = Call("delete_all", parent_id, collection_id, 0,
                                           Raised("IntegrityError"), NoValue)
                      ELSE /\ table' = [i \in DOMAIN table |->
                                          IF i \in ids
                                          THEN [table[i] EXCEPT
                                                  !.deleted = TRUE,
                                                  !.last_modified =
                                                     (CHOOSE x \in rows : x.id = i).last_modified]
                                          ELSE table[i]]
                           /\ deleted' = IF with_deleted THEN deleted \cup rows ELSE deleted
                           /\ last' = Call("delete_all", parent_id, collection_id, 0,
                                           NoError, RowList(rows))

\* --------------------------------------------------- Storage.purge_deleted
NoBefore == 0 - 1

\* The rows that tb.delete().where(...) removes; `before` is None (NoBefore) or
\* a timestamp.
Purged(stored, parent_id, collection_id, before) ==
    { x \in stored : x.parent_id = parent_id /\ x.collection_id = collection_id }

PurgeDeleted(parent_id, collection_id, before) ==
    LET gone == Purged(deleted, parent_id, collection_id, before)
    IN  /\ deleted' = deleted \ gone
        /\ last' = Call("purge_deleted", parent_id, collection_id, 0, NoError,
                        ResultProxy(Cardinality(gone)))
        /\ UNCHANGED <<table, timestamps, now, engine>>

\* ----------------------------------------------- Storage.collection_timestamp
\* The first read as it would be without lines 97-99: the reading of the clock
\* is returned and no row is stored.
SeedUnsaved(ledger, parent_id, collection_id, t) == ledger

\* The row that the first read of a namespace adds to the ledger.
Seed(ledger, parent_id, collection_id, t) ==
    [k \in DOMAIN ledger \cup {<<parent_id, collection_id>>} |->
        IF k = <<parent_id, collection_id>> THEN t ELSE ledger[k]]

CollectionTimestamp(parent_id, collection_id) ==
    IF <<parent_id, collection_id>> \in DOMAIN timestamps
    THEN /\ last' = Call("collection_timestamp", parent_id, collection_id, 0, NoError,
                         EpochTimestamp(timestamps[<<parent_id, collection_id>>]))
         /\ UNCHANGED <<table, deleted, timestamps, now, engine>>
    ELSE \E t \in Readings(now) :
           /\ now' = t
           /\ timestamps' = Seed(timestamps, parent_id, collection_id, t)
           /\ last' = Call("collection_timestamp", parent_id, collection_id, 0, NoError,
                           EpochTimestamp(t))
           /\ UNCHANGED <<table, deleted, engine>>

\* ----------------------------------------------------------- Storage.get_all
\* A Sort is [field, direction]; sql_sort_enum renders -1 as desc, 1 as asc.
\* The sorting of a call is a list, or None (the default).
NoSorting == [given |-> FALSE, list |-> <<>>]
Sorting(list) == [given |-> TRUE, list |-> list]

\* limit=None; `if limit:` takes 0 the same way.
NoLimit == 0

\* pagination_rules: None, or a list of rules, each a list of filters.
NoRules == [given |-> FALSE, list |-> <<>>]
Rules(list) == [given |-> TRUE, list |-> list]

\* self.qry.count() of line 325: the rows of the query before any filter.
TotalRecords(rows) == Cardinality(DOMAIN rows)

\* The query as it would be without lines 326-327.
GetAllQueryAny(rows, list, include_deleted) ==
    { i \in DOMAIN rows :
        \A k \in 1..Len(list) : SQLAFilter(list[k], i, rows[i]) }

\* The ids of the rows of self.qry after lines 326-328.
GetAllQuery(rows, list, include_deleted) ==
    { i \in DOMAIN rows :
        /\ (include_deleted \/ rows[i].deleted = FALSE)
        /\ \A k \in 1..Len(list) : SQLAFilter(list[k], i, rows[i]) }

\* ORDER BY of the clauses from the k-th on puts row a strictly before row b.
RECURSIVE SortsBefore(_, _, _, _, _)
SortsBefore(rows, list, k, a, b) ==
    IF k > Len(list) THEN FALSE
    ELSE LET va == FilterValue(list[k].field, a, rows[a])
             vb == FilterValue(list[k].field, b, rows[b])
         IN  IF va = vb THEN SortsBefore(rows, list, k + 1, a, b)
             ELSE IF list[k].direction = 1 THEN va < vb ELSE va > vb

\* The orders in which the engine may return the rows `ids` under the ORDER BY:
\* rows that the clauses do not tell apart come in any order.
SQLSort(rows, ids, list) ==
    { o \in Orders(ids) :
        \A x, y \in 1..Cardinality(ids) :
            x < y => ~SortsBefore(rows, list, 1, o[y], o[x]) }

\* get_all as it would be without lines 330-331.
LimitIgnored(order, limit) == order

\* self.qry.limit(limit): the first `limit` rows.
Limit(order, limit) ==
    IF limit = NoLimit \/ limit >= Len(order) THEN order ELSE SubSeq(order, 1, limit)

\* What get_all returns: the list of the rows, by their ids, and total_records.
Page(order, total) ==
    [type |-> "page", id |-> 0, last_modified |-> 0, name |-> NullName,
     rank |-> NullRank, n |-> total, rows |-> order]

\* storage_max_fetch_size of the settings, which load_from_config hands to
\* the Storage; no method reads it.
MaxFetchSize == 1

\* The values that get_all may return on the rows `rows`: lines 323-332.
GetAllReturns(rows, filters, sorting, pagination_rules, limit, include_deleted) ==
    { Page(Limit(order, limit), TotalRecords(rows)) :
        order \in SQLSort(rows, GetAllQuery(rows, filters.list, include_deleted),
                          sorting.list) }

GetAll(parent_id, collection_id, filters, sorting, pagination_rules, limit, include_deleted) ==
    /\ IF ~filters.given \/ ~sorting.given
       THEN last' = Call("get_all", parent_id, collection_id, 0,
                         Raised("TypeError"), NoValue)
       ELSE \E ret \in GetAllReturns(table, filters, sorting, pagination_rules,
                                     limit, include_deleted) :
              last' = Call("get_all", parent_id, collection_id, 0, NoError, ret)
    /\ UNCHANGED <<table, deleted, timestamps, now, engine>>

\* ------------------------------------------------------------- the callers
\* The dicts with keys among `keys`, names among `names` and ranks among `ranks`.
PayloadsOf(keys, names, ranks) ==
    { r \in Payloads : r.has \subseteq keys /\ r.name \in names \cup {"a"}
                       /\ r.rank \in ranks \cup {1}
                       /\ ("name" \in r.has => r.name \in names)
                       /\ ("rank" \in r.has => r.rank \in ranks) }

\* A record handed to create (or to update, for an id that is not stored) has
\* every key of `whole`, and may have an id; deleted is no field of the schema.
RecordsOf(whole, names, ranks) ==
    { r \in PayloadsOf(whole \cup {"id"}, names, ranks) : whole \subseteq r.has }

\* The calls of callers that use the ids `ids` and the parents `parents`, and
\* hand the records `records` to create, the objects `objects` to update and
\* the filters `filterings` to delete_all.  An object handed to update is a
\* record when the id is not stored, any of `objects` when it is.  An id in it
\* is the id of the call: the resource layer rejects a body whose id is not the
\* one of the URL.
Calls(ids, parents, records, objects, filterings) ==
    \/ \E p \in parents, c \in Collections, r \in records : Create(p, c, r)
    \/ \E p \in parents, c \in Collections, i \in ids : Get(p, c, i)
    \/ \E p \in parents, c \in Collections, i \in ids :
         \E r \in (IF i \in DOMAIN table THEN objects ELSE records) :
           /\ "id" \in r.has => r.id = i
           /\ Update(p, c, i, r)
    \/ \E p \in parents, c \in Collections, i \in ids, w \in BOOLEAN : Delete(p, c, i, w)
    \/ \E p \in parents, c \in Collections, f \in filterings, w \in BOOLEAN :
         DeleteAll(p, c, f, w)
    \/ \E p \in parents, c \in Collections, b \in {NoBefore} \cup Clock :
         PurgeDeleted(p, c, b)
    \/ \E p \in parents, c \in Collections : CollectionTimestamp(p, c)

\* The history of the calls: what the call just made adds to it.  Of the
\* values collection_timestamp returned for a namespace the last two are kept.
Observe(seen, value) ==
    IF Len(seen) < 2 THEN Append(seen, value) ELSE <<seen[2], value>>

Record ==
    /\ removed' = IF last'.op = "delete" /\ last'.error = NoError
                  THEN removed \cup {last'.object_id} ELSE removed
    /\ observed' =
         IF last'.op = "collection_timestamp"
         THEN LET key == <<last'.parent_id, last'.collection_id>>
              IN  [k \in DOMAIN observed \cup {key} |->
                     IF k = key
                     THEN Observe(IF key \in DOMAIN observed THEN observed[key] ELSE <<>>,
                                  last'.ret.last_modified)
                     ELSE observed[k]]
         ELSE observed

\* Callers whose history is not recorded.
NextOf(ids, parents, records, objects, filterings) ==
    /\ Calls(ids, parents, records, objects, filterings)
    /\ UNCHANGED <<removed, observed, pending, txn, schema>>

RankIs1 == [field |-> "rank", operator |-> "EQ", value |-> 1, values |-> {}]
IdIn2 == [field |-> "id", operator |-> "IN", value |-> 0, values |-> {2}]

\* One namespace, records with a name and a rank, either engine.
Records == RecordsOf({"name", "rank"}, Names, {1})
Objects == PayloadsOf({"name", "deleted"}, Names, {1})
Filterings == {NoFilters, Filters(<<>>), Filters(<<RankIs1, IdIn2>>)}

Next == NextOf(Ids, {"p1"}, Records, Objects, Filterings)

Spec == Init /\ [][Next]_vars

\* Two namespaces, records without fields and with the id the engine gives
\* them, on PostgreSQL.
RecordsNs == { r \in RecordsOf({}, {}, {}) : r.has = {} }
ObjectsNs == RecordsNs
FilteringsNs == {NoFilters, Filters(<<>>)}

InitNs ==
    /\ Init
    /\ engine = "postgresql"

NextNs == NextOf(Ids, Parents, RecordsNs, ObjectsNs, FilteringsNs)

SpecNs == InitNs /\ [][NextNs]_vars

\* One namespace, records without fields whose deleted flag update may set,
\* with the history of the calls.
ObjectsHist == PayloadsOf({"deleted"}, {}, {})

NextHist ==
    /\ Calls(Ids, {"p1"}, RecordsNs, ObjectsHist, FilteringsNs)
    /\ Record
    /\ UNCHANGED <<pending, txn, schema>>

SpecHist == InitNs /\ [][NextHist]_vars

\* Two namespaces, records with a rank and the id the engine gives them, and
\* callers that create, delete and list them.
RecordsAll == { r \in RecordsOf({"rank"}, {}, Ranks) : "id" \notin r.has }
RankDesc == [field |-> "rank", direction |-> 0 - 1]
IdDesc == [field |-> "id", direction |-> 0 - 1]
IdAsc == [field |-> "id", direction |-> 1]
IdNot2 == [field |-> "id", operator |-> "EXCLUDE", value |-> 0, values |-> {2}]
RankMax1 == [field |-> "rank", operator |-> "MAX", value |-> 1, values |-> {}]
RankGt1 == [field |-> "rank", operator |-> "GT", value |-> 1, values |-> {}]

\* The arguments of a get_all call.
Listing(filters, sorting, pagination_rules, limit, include_deleted) ==
    [filters |-> filters, sorting |-> sorting, pagination_rules |-> pagination_rules,
     limit |-> limit, include_deleted |-> include_deleted]

\* The calls of get_all that the callers make: with the defaults, with empty
\* lists, with deleted records included, with one and with two filters, with
\* one and with two sorts, with a limit and with pagination rules.  A call
\* does not change the store, so the calls that may have returned the value
\* of the last one are those of ListingsOf.
Listings ==
    { Listing(NoFilters, NoSorting, NoRules, NoLimit, FALSE),
      Listing(Filters(<<>>), NoSorting, NoRules, NoLimit, FALSE),
      Listing(Filters(<<>>), Sorting(<<>>), NoRules, NoLimit, FALSE),
      Listing(Filters(<<>>), Sorting(<<>>), NoRules, NoLimit, TRUE),
      Listing(Filters(<<RankIs1>>), Sorting(<<>>), NoRules, NoLimit, FALSE),
      Listing(Filters(<<RankIs1>>), Sorting(<<IdAsc>>), NoRules, NoLimit, TRUE),
      Listing(Filters(<<RankIs1, IdIn2>>), Sorting(<<IdDesc>>), NoRules, NoLimit, FALSE),
      Listing(Filters(<<>>), Sorting(<<RankDesc, IdDesc>>), NoRules, NoLimit, TRUE),
      Listing(Filters(<<IdNot2, RankMax1>>), Sorting(<<IdAsc>>), NoRules, NoLimit, TRUE),
      Listing(Filters(<<RankGt1>>), Sorting(<<RankDesc, IdAsc>>), NoRules, NoLimit, FALSE),
      Listing(Filters(<<>>), Sorting(<<IdDesc>>), NoRules, 1, FALSE),
      Listing(Filters(<<>>), Sorting(<<IdAsc>>), NoRules, MaxId, TRUE),
      Listing(Filters(<<>>), Sorting(<<IdAsc>>), Rules(<<<<IdIn2>>>>), NoLimit, FALSE),
      Listing(Filters(<<>>), Sorting(<<IdAsc>>), Rules(<<<<IdIn2>>, <<RankIs1>>>>), 1, TRUE) }

ListingsOf(ret) ==
    { a \in Listings :
        /\ a.filters.given
        /\ a.sorting.given
        /\ ret \in GetAllReturns(table, a.filters, a.sorting, a.pagination_rules,
                                 a.limit, a.include_deleted) }

GetAllOf(parent_id, collection_id, a) ==
    GetAll(parent_id, collection_id, a.filters, a.sorting, a.pagination_rules,
           a.limit, a.include_deleted)

NextAll ==
    /\ \/ \E p \in Parents, c \in Collections, r \in RecordsAll : Create(p, c, r)
       \/ \E p \in Parents, c \in Collections, i \in Ids, w \in BOOLEAN : Delete(p, c, i, w)
       \/ \E p \in Parents, c \in Collections, a \in Listings : GetAllOf(p, c, a)
    /\ UNCHANGED <<removed, observed, pending, txn, schema>>

SpecAll == InitNs /\ [][NextAll]_vars

\* ------------------------------------------ the classifier on its own
\* The IntegrityErrors a flush may raise: the SQLSTATE of a unique violation
\* or of a not-null violation, and any message of at most MaxMessage tokens.
Messages == UNION { [1..n -> {"(", ")", "k"}] : n \in 0..MaxMessage }
IntegrityErrors == [pgcode : {"23505", "23502"}, pgerror : Messages]

\* Session.flush() of create raises an IntegrityError for the record.
FlushRaises(error, record) ==
    /\ pending = NoPending
    /\ pending' = [error |-> error, record |-> record]
    /\ last' = Call("flush", "p1", ClassName, 0, Raised("IntegrityError"), NoValue)
    /\ UNCHANGED <<table, deleted, timestamps, now, engine, removed, observed, txn, schema>>

\* The except clause of create: process_unicity_error on the error raised,
\* which ends the handling of it.
Classify ==
    /\ pending # NoPending
    /\ last' = Call("process_unicity_error", "p1", ClassName, 0,
                    ProcessUnicityError(engine, pending.error, pending.record), NoValue)
    /\ pending' = NoPending
    /\ UNCHANGED <<table, deleted, timestamps, now, engine, removed, observed, txn, schema>>

\* Any engine name, or a session that is not bound to an engine.
InitClassify ==
    /\ table = <<>>
    /\ deleted = {}
    /\ timestamps = <<>>
    /\ now = 0
    /\ engine \in Engines \cup {"unbound"}
    /\ last = Call("init", "p1", ClassName, 0, NoError, NoValue)
    /\ removed = {}
    /\ observed = <<>>
    /\ pending = NoPending
    /\ txn = NoTxns
    /\ schema = NoSchema

NextClassify ==
    \/ \E e \in IntegrityErrors, r \in RecordsNs : FlushRaises(e, r)
    \/ Classify

SpecClassify == InitClassify /\ [][NextClassify]_vars

\* --------------------------------------------- schema_setup, MethodAppender
\* getattr(self.klass, name, None): the method of the class, or the one it
\* inherits from SQLABaseObject (global_preparer, global_validator), or None.
GetAttr(methods, name) ==
    IF name \in methods THEN Method("Dummy", name)
    ELSE IF name \in {"global_preparer", "global_validator"}
         THEN Method("SQLABaseObject", name)
         ELSE None

\* _append_preparer as it would be if the default '<keyword>_preparer' were
\* looked up first and the configured name only when there is no default.
AppendPreparerDefaultFirst(methods, preparer, keyword) ==
    IF GetAttr(methods, keyword \o "_preparer") # None
    THEN GetAttr(methods, keyword \o "_preparer")
    ELSE IF preparer.kind = "str" THEN GetAttr(methods, preparer.name)
    ELSE preparer

\* _append_preparer(pointer, keyword): the new value of pointer.preparer.
AppendPreparer(methods, preparer, keyword) ==
    IF preparer = None THEN GetAttr(methods, keyword \o "_preparer")
    ELSE IF preparer.kind = "str" THEN GetAttr(methods, preparer.name)
    ELSE preparer

\* A validator as a list: None is the empty list, one entry is the entry
\* itself, more entries are colander.All of them.
AsList(validator) == IF validator = None THEN <<>> ELSE <<validator>>

NotNone(value) == value # None

\* _set_method(pointer, methods_list): the new value of pointer.validator.
SetMethod(validator, methods_list) ==
    IF SelectSeq(methods_list, NotNone) = <<>>
    THEN AsList(validator)
    ELSE SelectSeq(methods_list, NotNone)

\* _append_validator raises AttributeError: line 146 looks the configured
\* name up without a default.
ValidatorMissing(methods, validator) ==
    validator.kind = "str" /\ GetAttr(methods, validator.name) = None

\* _append_validator(pointer, keyword), when it does not raise.
AppendValidator(methods, validator, keyword) ==
    SetMethod(validator,
              <<GetAttr(methods, keyword \o "_validator")>>
              \o (IF validator.kind = "str" THEN <<GetAttr(methods, validator.name)>>
                  ELSE AsList(validator)))

\* The position in Pointers of the first pointer whose _conversion raises,
\* one past the last when none does.
RECURSIVE FirstRaising(_, _, _)
FirstRaising(methods, info, k) ==
    IF k > Len(Pointers) THEN k
    ELSE IF ValidatorMissing(methods, info[Pointers[k]].validator) THEN k
    ELSE FirstRaising(methods, info, k + 1)

\* append_methods: _conversion of the schema node, then of each child, up to
\* the first that raises.  Of that one the preparer is already set.
AppendMethods(class) ==
    LET stop == FirstRaising(class.methods, class.info, 1)
    IN  [class EXCEPT
           !.has = TRUE,
           !.preparer = [k \in 1..Len(Pointers) |->
                           IF k <= stop
                           THEN AppendPreparer(class.methods,
                                               class.info[Pointers[k]].preparer, Pointers[k])
                           ELSE class.info[Pointers[k]].preparer],
           !.validator = [k \in 1..Len(Pointers) |->
                            IF k < stop
                            THEN AppendValidator(class.methods,
                                                 class.info[Pointers[k]].validator,
                                                 Pointers[k])
                            ELSE AsList(class.info[Pointers[k]].validator)],
           !.error = IF stop <= Len(Pointers) THEN "AttributeError" ELSE ""]

\* schema_setup(mapper, klass): a class that has no __schema__ gets one, whose
\* nodes hold what the info of the columns configures, and append_methods
\* runs on it.
SchemaSetup ==
    /\ ~schema.has
    /\ schema' = AppendMethods(schema)
    /\ UNCHANGED <<table, deleted, timestamps, now, engine, last, removed, observed,
                   pending, txn>>

\* The position of a pointer in Pointers.
Position(pointer) == CHOOSE k \in 1..Len(Pointers) : Pointers[k] = pointer

\* The classes: which of these methods the class defines, and what the info
\* of its columns name and price configures.
Methods == {"global_preparer", "name_preparer", "price_preparer", "adhoc_preparer",
            "adhoc_validator"}

Infos ==
    { [NoInfo EXCEPT !["name"] = [preparer |-> np, validator |-> nv],
                     !["price"] = [preparer |-> pp, validator |-> None]] :
        np \in {None, Str("adhoc_preparer")}, nv \in {None, Str("adhoc_validator")},
        pp \in {None, Str("adhoc_preparer")} }

InitSchema ==
    /\ table = <<>>
    /\ deleted = {}
    /\ timestamps = <<>>
    /\ now = 0
    /\ engine = "postgresql"
    /\ last = Call("init", "p1", ClassName, 0, NoError, NoValue)
    /\ removed = {}
    /\ observed = <<>>
    /\ pending = NoPending
    /\ txn = NoTxns
    /\ schema \in { Unmapped(methods, info) : methods \in SUBSET Methods, info \in Infos }

NextSchema == SchemaSetup

SpecSchema == InitSchema /\ [][NextSchema]_vars

\* ------------------------------------------- calls of concurrent transactions
\* Under read committed a call reads what is committed, and a write that
\* meets the uncommitted write of another transaction waits for its commit:
\* a call is two steps, its reads and the issue of its statements, then the
\* outcome of the statements and the commit (or rollback).
Ended(x, error) ==
    [txn EXCEPT ![x].pc = "idle", ![x].t = 0, ![x].touched = 0, ![x].error = error]

\* collection_timestamp, lines 90-96: the SELECT, and the reading of the clock
\* when there is no row.
CollectionTimestampRead(x, parent_id, collection_id) ==
    /\ txn[x].pc = "idle"
    /\ UNCHANGED <<table, deleted, timestamps, engine>>
    /\ IF <<parent_id, collection_id>> \in DOMAIN timestamps
       THEN /\ txn' = [txn EXCEPT ![x] =
                         InFlight("idle", "collection_timestamp", parent_id, collection_id,
                                  0, TRUE, 0, 0, "")]
            /\ last' = Call("collection_timestamp", parent_id, collection_id, 0, NoError,
                            EpochTimestamp(timestamps[<<parent_id, collection_id>>]))
            /\ UNCHANGED now
       ELSE \E t \in Readings(now) :
              /\ now' = t
              /\ txn' = [txn EXCEPT ![x] =
                           InFlight("flush", "collection_timestamp", parent_id,
                                    collection_id, 0, FALSE, t, 0, "")]
              /\ UNCHANGED last

\* collection_timestamp, lines 97-100: the INSERT of the seed row and the
\* commit on leaving `with transaction.manager`.  The INSERT violates the
\* primary key when the row has been committed since the SELECT; nothing
\* catches the IntegrityError.
CollectionTimestampCommit(x) ==
    /\ txn[x].pc = "flush"
    /\ txn[x].op = "collection_timestamp"
    /\ UNCHANGED <<table, deleted, now, engine>>
    /\ IF <<txn[x].parent_id, txn[x].collection_id>> \in DOMAIN timestamps
       THEN /\ UNCHANGED timestamps
            /\ txn' = Ended(x, "IntegrityError")
            /\ last' = Call("collection_timestamp", txn[x].parent_id,
                            txn[x].collection_id, 0, Raised("IntegrityError"), NoValue)
       ELSE /\ timestamps' = Seed(timestamps, txn[x].parent_id, txn[x].collection_id,
                                   txn[x].t)
            /\ txn' = Ended(x, "")
            /\ last' = Call("collection_timestamp", txn[x].parent_id,
                            txn[x].collection_id, 0, NoError, EpochTimestamp(txn[x].t))

\* The creates in flight.
Creating == { y \in Txns : txn[y].pc = "flush" /\ txn[y].op = "create" }

\* create of a record without fields, lines 124-129 up to the statements of
\* the flush: the reading of line 126, and the hook, which looks for the ledger
\* row of the namespace and reads the clock.
CreateFlush(x, parent_id, collection_id) ==
    /\ txn[x].pc = "idle"
    /\ Autoincrement(table) + Cardinality(Creating) \in Ids
    /\ \E t1 \in Readings(now) : \E t2 \in Readings(t1) :
         /\ now' = t2
         /\ txn' = [txn EXCEPT ![x] =
                      InFlight("flush", "create", parent_id, collection_id, 0,
                               <<parent_id, collection_id>> \in DOMAIN timestamps,
                               t1, t2, "")]
    /\ UNCHANGED <<table, deleted, timestamps, engine, last>>

\* create, the outcome of the flush of line 129 and lines 130-134.  The hook
\* has merged a new ledger row when it found none: its INSERT violates the
\* primary key when the row has been committed since, and the classifier
\* takes the IntegrityError.  Otherwise the record and the ledger row are
\* written.
CreateCommit(x) ==
    /\ txn[x].pc = "flush"
    /\ txn[x].op = "create"
    /\ UNCHANGED <<deleted, now, engine>>
    /\ LET key == <<txn[x].parent_id, txn[x].collection_id>>
           id == Autoincrement(table)
           row == Serialize(NoPayload, txn[x].parent_id, txn[x].t)
       IN  IF ~txn[x].found /\ key \in DOMAIN timestamps
           THEN LET error == ProcessUnicityError(engine,
                                 PgUniqueViolation("parent_id, collection_id",
                                     txn[x].parent_id \o ", " \o txn[x].collection_id),
                                 NoPayload)
                IN  /\ UNCHANGED <<table, timestamps>>
                    /\ txn' = Ended(x, error.kind)
                    /\ last' = Call("create", txn[x].parent_id, txn[x].collection_id, 0,
                                    error, NoValue)
           ELSE /\ table' = [k \in DOMAIN table \cup {id} |->
                                IF k = id THEN row ELSE table[k]]
                /\ timestamps' = PopulateTimestampsTable(timestamps,
                                      {NewRecord(txn[x].parent_id)}, txn[x].touched)
                /\ txn' = Ended(x, "")
                /\ last' = Call("create", txn[x].parent_id, txn[x].collection_id, 0,
                                NoError, Deserialize(id, row))

\* delete, lines 222-231: the SELECT of the record and, when it is live, the
\* reading of the clock; the UPDATE and the INSERT wait for the flush of the
\* commit.
DeleteRead(x, parent_id, collection_id, object_id, with_deleted) ==
    /\ txn[x].pc = "idle"
    /\ UNCHANGED <<table, deleted, timestamps, engine>>
    /\ IF object_id \notin DOMAIN table \/ table[object_id].deleted
       THEN /\ txn' = [txn EXCEPT ![x] =
                         InFlight("idle", "delete", parent_id, collection_id, object_id,
                                  FALSE, 0, 0, "RecordNotFoundError")]
            /\ last' = Call("delete", parent_id, collection_id, object_id,
                            Raised("RecordNotFoundError"), NoValue)
            /\ UNCHANGED now
       ELSE \E t \in Readings(now) :
              /\ now' = t
              /\ txn' = [txn EXCEPT ![x] =
                           InFlight("flush", "delete", parent_id, collection_id,
                                    object_id, TRUE, t, 0, "")]
              /\ UNCHANGED last

\* delete, the flush and the commit of the ambient transaction: the UPDATE of
\* the record, which the id alone selects, and the INSERT of the tombstone,
\* which violates the primary key when the tombstone has been committed
\* since the SELECT; the transaction is then rolled back.
DeleteCommit(x) ==
    /\ txn[x].pc = "flush"
    /\ txn[x].op = "delete"
    /\ UNCHANGED <<now, engine>>
    /\ LET i == txn[x].object_id
           row == [table[i] EXCEPT !.deleted = TRUE, !.last_modified = txn[x].t]
           new == DeleteTombstones(i, txn[x].parent_id, txn[x].collection_id,
                                   txn[x].t, TRUE)
       IN  IF InsertFails(deleted, new)
           THEN /\ UNCHANGED <<table, deleted, timestamps>>
                /\ txn' = Ended(x, "IntegrityError")
                /\ last' = Call("delete", txn[x].parent_id, txn[x].collection_id, i,
                                Raised("IntegrityError"), NoValue)
           ELSE /\ table' = [table EXCEPT ![i] = row]
                /\ deleted' = deleted \cup new
                /\ timestamps' = PopulateTimestampsTable(timestamps,
                                      { NewDeleted(y.parent_id) : y \in new }, txn[x].t)
                /\ txn' = Ended(x, "")
                /\ last' = Call("delete", txn[x].parent_id, txn[x].collection_id, i,
                                NoError, Deserialize(i, row))

\* Two transactions on PostgreSQL, callers of one namespace, whose calls
\* interleave in every way.
NextRace ==
    /\ \E x \in Txns :
         \/ \E c \in Collections : CollectionTimestampRead(x, "p1", c)
         \/ CollectionTimestampCommit(x)
         \/ \E c \in Collections : CreateFlush(x, "p1", c)
         \/ CreateCommit(x)
         \/ \E c \in Collections, i \in Ids, w \in BOOLEAN : DeleteRead(x, "p1", c, i, w)
         \/ DeleteCommit(x)
    /\ UNCHANGED <<removed, observed, pending, schema>>

SpecRace == InitNs /\ [][NextRace]_vars

\* ---------------------------------------------------------------------
\* C1: once delete(id) has succeeded, every later get(id) and every later
\* delete(id) fails with RecordNotFoundError, whatever calls came between.
C1_DeleteIsFinal ==
    [][(last'.op \in {"get", "delete"} /\ last'.object_id \in removed)
          => last'.error.kind = "RecordNotFoundError"]_vars

\* ---------------------------------------------------------------------
\* C2: whenever collection_timestamp of a namespace returns, its value is at
\* least the last_modified of every record (live or deleted) and of every
\* tombstone of that namespace.
NamespaceStamps(parent_id, collection_id) ==
    { table[i].last_modified : i \in { j \in DOMAIN table : table[j].parent_id = parent_id } }
    \cup { x.last_modified :
             x \in { y \in deleted : /\ y.parent_id = parent_id
                                     /\ y.collection_id = collection_id } }

C2_TimestampCoversRecords ==
    last.op = "collection_timestamp"
      => \A t \in NamespaceStamps(last.parent_id, last.collection_id) :
           last.ret.last_modified >= t

\* ---------------------------------------------------------------------
\* C3: of two successive values that collection_timestamp returned for the
\* same namespace, whatever calls came between, the later is at least the
\* earlier.
C3_TimestampNeverDecreases ==
    \A k \in DOMAIN observed :
        Len(observed[k]) = 2 => observed[k][1] <= observed[k][2]

\* Two observations of a namespace with calls between that raised the value.
C3_Witness ==
    \E k \in DOMAIN observed :
        /\ Len(observed[k]) = 2
        /\ observed[k][1] < observed[k][2]
        /\ \E i \in DOMAIN table : table[i].parent_id = k[1]

\* ---------------------------------------------------------------------
\* C4: a successful update or delete of a stored record leaves it with a
\* last_modified strictly greater than before, the clock having moved past
\* the previous value by the end of the call.
C4_LastModifiedIncreases ==
    [][(/\ last'.op \in {"update", "delete"}
        /\ last'.error = NoError
        /\ last'.object_id \in DOMAIN table
        /\ now' > table[last'.object_id].last_modified)
          => table'[last'.object_id].last_modified
               > table[last'.object_id].last_modified]_vars

\* ---------------------------------------------------------------------
\* C5: after a successful delete(id) there is exactly one tombstone of
\* (id, parent_id, collection_id); no tombstone is ever made for a record
\* that a delete has already deleted; a tombstone stays as it is until a
\* purge removes it.
C5_OneTombstonePerRecord ==
    [][/\ (last'.op = "delete" /\ last'.error = NoError)
            => Cardinality({ x \in deleted' :
                               Key(x) = <<last'.object_id, last'.parent_id,
                                          last'.collection_id>> }) = 1
       /\ \A x \in deleted' \ deleted : x.id \notin removed
       /\ \A x \in deleted : x \in deleted' \/ last'.op = "purge_deleted"]_vars

\* ---------------------------------------------------------------------
\* C6: purge_deleted never raises and returns the number of tombstones it
\* removed, an int: 1 after one delete, 0 when the namespace has none.
C6_PurgeReturnsCount ==
    [][last'.op = "purge_deleted"
          => /\ last'.error = NoError
             /\ last'.ret.type = "int"
             /\ last'.ret.n = Cardinality(deleted \ deleted')]_vars

\* ---------------------------------------------------------------------
\* C7: purge_deleted(before=t) removes the tombstones of its namespace whose
\* last_modified is less than t, and no other tombstone.
C7_PurgeBefore ==
    [][\A p \in Parents, c \in Collections, b \in Clock :
         PurgeDeleted(p, c, b)
           => deleted' = deleted \ { x \in deleted : /\ x.parent_id = p
                                                     /\ x.collection_id = c
                                                     /\ x.last_modified < b }]_vars

\* ---------------------------------------------------------------------
\* C8: a successful update(X, record) when no record has id X stores the
\* record under X and returns it, so that get(X) finds it.
C8_UpdateCreatesUnderId ==
    [][(/\ last'.op = "update"
        /\ last'.error = NoError
        /\ last'.object_id \notin DOMAIN table)
          => /\ last'.object_id \in DOMAIN table'
             /\ ~table'[last'.object_id].deleted
             /\ last'.ret = Deserialize(last'.object_id, table'[last'.object_id])]_vars

\* ---------------------------------------------------------------------
\* C9: update(id, object) of a stored record changes, besides last_modified,
\* only the columns that are keys of the object; every other column of the
\* row and every other row stay as they were.
C9_UpdateFrame ==
    [][last'.op = "update" =>
         \A r \in Objects :
           (/\ last'.object_id \in DOMAIN table
            /\ Update(last'.parent_id, last'.collection_id, last'.object_id, r))
             => LET i == last'.object_id
                IN  /\ DOMAIN table' = DOMAIN table
                    /\ \A j \in DOMAIN table \ {i} : table'[j] = table[j]
                    /\ table'[i].parent_id = table[i].parent_id
                    /\ ("name" \notin r.has => table'[i].name = table[i].name)
                    /\ ("rank" \notin r.has => table'[i].rank = table[i].rank)
                    /\ ("deleted" \notin r.has => table'[i].deleted = table[i].deleted)
                    /\ deleted' = deleted]_vars

\* An update of one of two stored records that has set its deleted flag and
\* has left it with a name.
C9_Witness ==
    /\ last.op = "update"
    /\ last.error = NoError
    /\ Cardinality(DOMAIN table) = 2
    /\ table[last.object_id].deleted
    /\ table[last.object_id].name # NullName

\* ---------------------------------------------------------------------
\* C10 as stated: a create that repeats the value of a unique column raises
\* UnicityError naming a repeated column and carrying the record.
Repeated(parent_id, record) ==
    Violated(table, 0, AssignedId(record, table), Serialize(record, parent_id, 0).name)

C10_AlwaysUnicityError ==
    [][last'.op = "create" =>
         \A r \in Records :
           (/\ Repeated(last'.parent_id, r) # {}
            /\ Create(last'.parent_id, last'.collection_id, r))
             => \E f \in Repeated(last'.parent_id, r) :
                  last'.error = UnicityError(f, r)]_vars

\* C10 amended: on PostgreSQL, when the repeated value has no parenthesis, the
\* create raises UnicityError naming the column the engine reported and
\* carrying the record; on another engine, or when the value has a
\* parenthesis, it raises BackendError.
Plain(field, record) ==
    field = "id" \/ record.name \notin {")("}

C10_UnicityErrorWhereClassified ==
    [][last'.op = "create" =>
         \A r \in Records :
           (/\ Repeated(last'.parent_id, r) # {}
            /\ Create(last'.parent_id, last'.collection_id, r))
             => \E f \in Repeated(last'.parent_id, r) :
                  last'.error = IF engine = "postgresql" /\ Plain(f, r)
                                THEN UnicityError(f, r)
                                ELSE Raised("BackendError")]_vars

\* A create that repeated a name and raised UnicityError naming it.
C10_Witness ==
    /\ last.op = "create"
    /\ last.error.kind = "UnicityError"
    /\ last.error.field = "name"
    /\ \E i \in DOMAIN table : table[i].name = last.error.record.name

\* ---------------------------------------------------------------------
\* C11: the classifier ends every IntegrityError by raising UnicityError or
\* BackendError and nothing else: UnicityError, naming the first group and
\* carrying the record, when the engine is postgresql, the code is 23505 and
\* the message has exactly two parenthesised groups; BackendError otherwise.
\* The groups of a message, read left to right: a "(" opens a group unless one
\* is open, the next ")" closes it.
RECURSIVE Scan(_, _, _, _)
Scan(msg, i, start, groups) ==
    IF i > Len(msg) THEN groups
    ELSE IF start = 0
         THEN Scan(msg, i + 1, IF msg[i] = "(" THEN i ELSE 0, groups)
         ELSE IF msg[i] = ")"
              THEN Scan(msg, i + 1, 0, Append(groups, SubSeq(msg, start + 1, i - 1)))
              ELSE Scan(msg, i + 1, start, groups)

Classified(eng, error) ==
    /\ eng = "postgresql"
    /\ error.pgcode = "23505"
    /\ Len(Scan(error.pgerror, 1, 0, <<>>)) = 2

C11_ClassifierRaisesDomainError ==
    [][Classify
         => last'.error = IF Classified(engine, pending.error)
                          THEN UnicityError(Join(Scan(pending.error.pgerror, 1, 0, <<>>)[1]),
                                            pending.record)
                          ELSE Raised("BackendError")]_vars

\* A unique violation on postgresql whose message has the groups "k" and
\* "", classified as a UnicityError naming k.
C11_Witness ==
    /\ last.op = "process_unicity_error"
    /\ last.error.kind = "UnicityError"
    /\ last.error.field = "k"

\* ---------------------------------------------------------------------
\* C12: total_records of a get_all is the number of records that match the
\* filters of the call, the deleted ones counted only when include_deleted
\* is true.
Holds(filter, id, row) ==
    LET v == IF filter.field = "id" THEN id ELSE row.rank
    IN  CASE filter.operator = "EQ" -> v = filter.value
          [] filter.operator = "IN" -> v \in filter.values
          [] filter.operator = "EXCLUDE" -> v \notin filter.values
          [] filter.operator = "GT" -> v > filter.value
          [] filter.operator = "MAX" -> v <= filter.value

Matching(a) ==
    { i \in DOMAIN table :
        /\ a.include_deleted \/ ~table[i].deleted
        /\ \A k \in 1..Len(a.filters.list) : Holds(a.filters.list[k], i, table[i]) }

Listed == last.op = "get_all" /\ last.error = NoError

C12_TotalCountsMatching ==
    Listed => \A a \in ListingsOf(last.ret) : last.ret.n = Cardinality(Matching(a))

\* ---------------------------------------------------------------------
\* C13: a get_all with a limit n returns min(n, number of matching records)
\* records, and the total_records that the same call without the limit
\* reports.
Returned == { last.ret.rows[k] : k \in 1..Len(last.ret.rows) }

SortKey(sort, i) == IF sort.field = "id" THEN i ELSE table[i].rank

Precedes(list, x, y) ==
    \E k \in 1..Len(list) :
        /\ \A j \in 1..(k - 1) : SortKey(list[j], x) = SortKey(list[j], y)
        /\ IF list[k].direction = 1
           THEN SortKey(list[k], x) < SortKey(list[k], y)
           ELSE SortKey(list[k], x) > SortKey(list[k], y)

C14_FiltersAndSorts ==
    Listed =>
      \A a \in ListingsOf(last.ret) :
        /\ Returned \subseteq Matching(a)
        /\ Cardinality(Returned) = Len(last.ret.rows)
        /\ a.limit = NoLimit => Returned = Matching(a)
        /\ \A x, y \in 1..Len(last.ret.rows) :
             x < y => ~Precedes(a.sorting.list, last.ret.rows[y], last.ret.rows[x])
        /\ \A i \in Matching(a) \ Returned, j \in Returned :
             ~Precedes(a.sorting.list, i, j)

\* A get_all with one filter and two sorts whose first sort ties: the second
\* sort has put the two records in order.
C14_Witness ==
    /\ Listed
    /\ last.ret.rows = <<1, 2>>
    /\ \E a \in ListingsOf(last.ret) :
         /\ Len(a.filters.list) = 1
         /\ a.sorting.list = <<RankDesc, IdAsc>>

\* ---------------------------------------------------------------------
\* C15: get_all with include_deleted false returns no record whose deleted
\* flag is set; with include_deleted true (and no limit) it returns the
\* deleted records that satisfy the filters as well.
C15_DeletedOnlyOnRequest ==
    Listed =>
      \A a \in ListingsOf(last.ret) :
        /\ ~a.include_deleted => \A i \in Returned : ~table[i].deleted
        /\ (a.include_deleted /\ a.limit = NoLimit)
             => \A i \in DOMAIN table :
                  (/\ table[i].deleted
                   /\ \A k \in 1..Len(a.filters.list) :
                        Holds(a.filters.list[k], i, table[i]))
                    => i \in Returned

\* A get_all with include_deleted true that returned a deleted record and a
\* live one.
C15_Witness ==
    /\ Listed
    /\ \E i, j \in Returned : table[i].deleted /\ ~table[j].deleted
    /\ \E a \in ListingsOf(last.ret) : a.include_deleted

\* ---------------------------------------------------------------------
\* C16: a call is scoped by its parent_id: get_all returns and counts only
\* records of the parent of the call, and a get or delete that succeeds has
\* acted on a record of the parent of the call.
C16_ScopedByParent ==
    /\ Listed =>
         /\ \A i \in Returned : table[i].parent_id = last.parent_id
         /\ last.ret.n <= Cardinality({ i \in DOMAIN table :
                                          table[i].parent_id = last.parent_id })
    /\ (last.op \in {"get", "delete"} /\ last.error = NoError)
         => table[last.object_id].parent_id = last.parent_id

\* ---------------------------------------------------------------------
\* C17: a get_all with pagination rules returns only records that satisfy
\* every filter of at least one rule.
C17_PaginationRulesRestrict ==
    Listed =>
      \A a \in ListingsOf(last.ret) :
        a.pagination_rules.given =>
          \A i \in Returned :
            \E r \in 1..Len(a.pagination_rules.list) :
              \A k \in 1..Len(a.pagination_rules.list[r]) :
                Holds(a.pagination_rules.list[r][k], i, table[i])

\* ---------------------------------------------------------------------
\* C18: get_all never returns more than max_fetch_size records.
C18_AtMostMaxFetchSize ==
    Listed => Len(last.ret.rows) <= MaxFetchSize

\* ---------------------------------------------------------------------
\* C19: delete_all succeeds and sets the deleted flag of exactly the records
\* of the namespace that were live and satisfy every filter, all of them when
\* no filters are given (the default); it returns one entry for each.
C19_DeleteAllOfNamespace ==
    [][last'.op = "delete_all" =>
         \A f \in FilteringsNs, w \in BOOLEAN :
           DeleteAll(last'.parent_id, last'.collection_id, f, w)
             => LET hit == { i \in DOMAIN table :
                               /\ table[i].parent_id = last'.parent_id
                               /\ ~table[i].deleted
                               /\ \A k \in 1..Len(f.list) :
                                    Holds(f.list[k], i, table[i]) }
                IN  /\ last'.error = NoError
                    /\ last'.ret.n = Cardinality(hit)
                    /\ DOMAIN table' = DOMAIN table
                    /\ \A i \in DOMAIN table :
                         table'[i].deleted = (table[i].deleted \/ i \in hit)]_vars

\* ---------------------------------------------------------------------
\* C20: a delete_all that succeeds with with_deleted true adds one tombstone
\* for each record it has deleted, with the last_modified it has written to
\* the record, and no other; with with_deleted false it adds none.  It removes
\* no tombstone.
C20_DeleteAllTombstones ==
    [][(last'.op = "delete_all" /\ last'.error = NoError) =>
         \A f \in FilteringsNs, w \in BOOLEAN :
           DeleteAll(last'.parent_id, last'.collection_id, f, w)
             => LET affected == { i \in DOMAIN table :
                                    ~table[i].deleted /\ table'[i].deleted }
                IN  /\ deleted \subseteq deleted'
                    /\ deleted' \ deleted =
                         IF w
                         THEN { Tombstone(i, last'.parent_id, last'.collection_id,
                                          table'[i].last_modified) : i \in affected }
                         ELSE {}]_vars

\* A delete_all that has deleted two records at different readings of the
\* clock and has left a tombstone for each.
C20_Witness ==
    /\ last.op = "delete_all"
    /\ last.error = NoError
    /\ last.ret.n = 2
    /\ table[1].last_modified # table[2].last_modified
    /\ \A i \in {1, 2} :
         Tombstone(i, last.parent_id, last.collection_id, table[i].last_modified)
           \in deleted

\* ---------------------------------------------------------------------
\* C21: a collection_timestamp that follows a collection_timestamp of the same
\* namespace, the namespace having no record, raises nothing, returns the
\* value the first returned and leaves the ledger with the one entry of the
\* namespace, which holds that value.
C21_SeedIsIdempotent ==
    [][(/\ last.op = "collection_timestamp"
        /\ last'.op = "collection_timestamp"
        /\ last'.parent_id = last.parent_id
        /\ last'.collection_id = last.collection_id
        /\ \A i \in DOMAIN table : table[i].parent_id # last.parent_id)
          => /\ last'.error = NoError
             /\ last'.ret = last.ret
             /\ <<last.parent_id, last.collection_id>> \in DOMAIN timestamps'
             /\ timestamps'[<<last.parent_id, last.collection_id>>]
                  = last.ret.last_modified]_vars

\* Two reads of a namespace without records: the first has seeded the ledger
\* with the reading 1 of the clock, the second has returned that value.
C21_Witness ==
    /\ last.op = "collection_timestamp"
    /\ table = <<>>
    /\ \E k \in DOMAIN observed :
         /\ k = <<last.parent_id, last.collection_id>>
         /\ observed[k] = <<1, 1>>
         /\ timestamps[k] = 1

\* ---------------------------------------------------------------------
\* C22: when the calls of two transactions have both been the first read
\* (collection_timestamp) or the first touch (create) of a namespace, each
\* having found no ledger entry, neither has raised and the ledger has the
\* one entry of the namespace.
FirstOf(x) ==
    /\ txn[x].pc = "idle"
    /\ txn[x].op \in {"collection_timestamp", "create"}
    /\ ~txn[x].found

C22_SeedIsRaceSafe ==
    \A x, y \in Txns :
        (/\ x # y
         /\ FirstOf(x)
         /\ FirstOf(y)
         /\ txn[x].parent_id = txn[y].parent_id
         /\ txn[x].collection_id = txn[y].collection_id)
          => /\ txn[x].error = ""
             /\ txn[y].error = ""
             /\ <<txn[x].parent_id, txn[x].collection_id>> \in DOMAIN timestamps

\* ---------------------------------------------------------------------
\* C27: when two transactions have called delete on the same record, live
\* when the first of the calls read it, one of the calls has succeeded, the
\* other has raised RecordNotFoundError, and the record has one tombstone.
DeleteOf(x, id) ==
    /\ txn[x].pc = "idle"
    /\ txn[x].op = "delete"
    /\ txn[x].object_id = id

C27_OneDeleteWins ==
    \A x, y \in Txns, i \in Ids :
        (/\ x # y
         /\ DeleteOf(x, i)
         /\ DeleteOf(y, i)
         /\ txn[x].found \/ txn[y].found)
          => /\ {txn[x].error, txn[y].error} = {"", "RecordNotFoundError"}
             /\ Cardinality({ d \in deleted : d.id = i }) = 1

\* ---------------------------------------------------------------------
\* C23: a record whose deleted flag is set stays so: no call brings the store
\* from a state where get(id) raises RecordNotFoundError for a stored, deleted
\* record to a state where get(id) succeeds.
GetSucceeds(rows, id) == id \in DOMAIN rows /\ ~rows[id].deleted

C23_NoReturnToLive ==
    [][\A i \in Ids :
         (i \in DOMAIN table /\ table[i].deleted) => ~GetSucceeds(table', i)]_vars

\* ---------------------------------------------------------------------
\* C24: a get, whether it returns the record or raises RecordNotFoundError,
\* leaves the records, the tombstones and the ledger as they were.
C24_GetHasNoEffect ==
    [][last'.op = "get"
         => /\ last'.error \in {NoError, Raised("RecordNotFoundError")}
            /\ table' = table
            /\ deleted' = deleted
            /\ timestamps' = timestamps]_vars

\* A get that has returned a record of a store that holds a deleted record,
\* its tombstone and a ledger row.
C24_Witness ==
    /\ last.op = "get"
    /\ last.error = NoError
    /\ last.ret = Deserialize(last.object_id, table[last.object_id])
    /\ deleted # {}
    /\ DOMAIN timestamps # {}

\* ---------------------------------------------------------------------
\* C26: a delete that succeeds sets the deleted flag of the record; it adds
\* the tombstone of the record when with_deleted is true and no tombstone
\* when with_deleted is false.
C26_TombstoneOnlyWithDeleted ==
    [][(last'.op = "delete" /\ last'.error = NoError) =>
         \A w \in BOOLEAN :
           Delete(last'.parent_id, last'.collection_id, last'.object_id, w)
             => /\ table'[last'.object_id].deleted
                /\ deleted' \ deleted =
                     IF w
                     THEN {Tombstone(last'.object_id, last'.parent_id, last'.collection_id,
                                     table'[last'.object_id].last_modified)}
                     ELSE {}]_vars

\* ---------------------------------------------------------------------
\* C28: every tombstone is the tombstone of a stored record of its id and
\* parent_id whose deleted flag is set and whose last_modified is that of
\* the tombstone.
C28_TombstonesOfDeletedRecords ==
    \A d \in deleted :
        /\ d.id \in DOMAIN table
        /\ table[d.id].parent_id = d.parent_id
        /\ table[d.id].deleted
        /\ table[d.id].last_modified = d.last_modified

\* ---------------------------------------------------------------------
\* C25: after a schema_setup that has raised nothing, the preparer of a field
\* is the method of the class that the info of the column names when it names
\* one (whether or not the class has a '<field>_preparer'), else the method
\* '<field>_preparer' of the class when the class has it, else None; the
\* preparer of the schema node is the global_preparer of the class.
Effective(field) ==
    IF schema.info[field].preparer # None
    THEN IF schema.info[field].preparer.name \in schema.methods
         THEN Method("Dummy", schema.info[field].preparer.name)
         ELSE None
    ELSE IF (field \o "_preparer") \in schema.methods
         THEN Method("Dummy", field \o "_preparer")
         ELSE None

C25_PreparerResolution ==
    (schema.has /\ schema.error = "")
      => /\ \A field \in {"name", "price"} :
              schema.preparer[Position(field)] = Effective(field)
         /\ schema.preparer[Position("global")] =
              IF "global_preparer" \in schema.methods
              THEN Method("Dummy", "global_preparer")
              ELSE Method("SQLABaseObject", "global_preparer")

\* A class with name_preparer, adhoc_preparer and price_preparer whose column
\* name configures adhoc_preparer: name has got adhoc_preparer, price its
\* default.
C25_Witness ==
    /\ schema.has
    /\ schema.error = ""
    /\ {"name_preparer", "adhoc_preparer", "price_preparer"} \subseteq schema.methods
    /\ schema.info["name"].preparer = Str("adhoc_preparer")
    /\ schema.preparer[Position("name")] = Method("Dummy", "adhoc_preparer")
    /\ schema.preparer[Position("price")] = Method("Dummy", "price_preparer")
====
